---- MODULE Spec2Model ----
(***************************************************************************)
(* A model of the photo-booth capture pipeline of lets-take-a-pic:         *)
(*   - captureFrame / generateComposite (utils/imageProcessing, the        *)
(*     version with the QR badge and the dynamic spacing),                  *)
(*   - the App component's capture session: startCaptureSequence,          *)
(*     startCountdown with its two intervals, takePhoto, processResult,    *)
(*     generateVideo, handleRetake.                                        *)
(* Pixel arithmetic is exact: the source computes in doubles with the      *)
(* ratio 4/3 and floors; for the sizes used here the doubles agree with    *)
(* the rationals, which are written with integer division.                 *)
(***************************************************************************)
EXTENDS Integers, Sequences, FiniteSets, TLC

VARIABLES
    \* ---- image pipeline (captureFrame, generateComposite) ----
    videoWidth,      \* video.videoWidth of the frame source
    videoHeight,     \* video.videoHeight of the frame source
    layout,          \* gridType handed to generateComposite
    crop,            \* crop rectangle of the last captureFrame, or NoCrop
    images,          \* the stills captured so far (data URLs, by their size)
    canvas,          \* result of generateComposite, or NoCanvas
    \* ---- the mask (getOverlayStyle, captureFrame + drawMask) ----
    faceData,        \* the face estimate of useFaceDetection, or NullFace
    containerRatio,  \* width / height of the VideoFeed container
    overlayStyle,    \* the style of the live overlay, or NoStyle
    maskDrawn,       \* anchor and scale of the mask drawMask baked, or NoMask
    detection,       \* useFaceDetection: enabled, modelRef, rafRef, its loops
    \* ---- the App component ----
    appState,            \* AppState
    config,              \* PhotoConfig: gridType, timerDuration
    photos,              \* the stills of the session
    compositeUrl,        \* Null or the composite
    videoUrl,            \* Null or the recorded video
    videoMimeType,       \* the container type of the last recording
    recordedFrames,      \* recordedFramesRef.current: the sealed clips
    currentClip,         \* currentClipRef.current
    recordingInterval,   \* recordingIntervalRef.current holds a live interval
    timer,               \* the interval of timerRef.current is live
    countdown,           \* the countdown state
    delay,               \* the 1500 ms timeout of delayRef.current is pending
    processTimeout,      \* Null or the photos of the pending 500 ms timeout
    videoMounted,        \* videoRef.current is an element
    readyState,          \* videoRef.current.readyState (0, 1, 2 for >= 2)
    elapsed,             \* sampling callbacks since startCountdown (the clock)
    jitter,              \* sampling callbacks off the nominal schedule so far
    sessions,            \* capture sequences started so far
    retakes,             \* presses of the Retake button so far
    pr,                  \* the processResult call of each session
    gv                   \* the generateVideo call of each session

maskVars == <<faceData, containerRatio, overlayStyle, maskDrawn, detection>>

imgVars == <<videoWidth, videoHeight, layout, crop, images, canvas, maskVars>>

sourceVars == <<videoWidth, videoHeight, videoMounted, readyState>>

captureVars == <<photos, recordedFrames, currentClip, recordingInterval, timer,
                 countdown, delay, processTimeout, elapsed, jitter>>

resultVars == <<compositeUrl, videoUrl, videoMimeType, pr, gv>>

appVars == <<appState, config, sessions, retakes, videoMounted, readyState,
             captureVars, resultVars>>

vars == <<imgVars, appVars>>

----------------------------------------------------------------------------
\* Bounds of the model.

\* Source sizes 1..MaxDim x 1..MaxDim are explored exhaustively.
MaxDim == 24

\* Capture sequences one run of the App may start.
MaxSessions == 1

\* Presses of the Retake button in one run.
MaxRetakes == 1

\* Scheduling jitter between the two intervals of startCountdown: the
\* k-th countdown callback is due when k*10 sampling callbacks have run; the
\* callbacks it runs early or late by, summed over the run, are <= MaxJitter.
MaxJitter == 1

\* Sampling periods after the start of a countdown within which the video
\* element may get its data.
MaxReadyDelay == 2

\* The timer durations of TIMERS that are explored: those <= MaxTimer.
MaxTimer == 3

\* Sampled frames per clip (before the freeze frames) of the recordings that
\* generateVideo is run on by itself.
MaxSamples == 3

\* The longest lateness of a timeout (ms) when the main thread stalls.
MaxStall == 1000

----------------------------------------------------------------------------
\* types.ts: enum GridType, constants.ts: GRID_CONFIGS

SINGLE   == "1x1"
STRIP_3  == "1x3"
STRIP_4  == "1x4"
GRID_2X2 == "2x2"

GridType == {SINGLE, STRIP_3, STRIP_4, GRID_2X2}

GRID_CONFIGS(gridType) ==
    CASE gridType = SINGLE   -> [count |-> 1]
      [] gridType = STRIP_3  -> [count |-> 3]
      [] gridType = STRIP_4  -> [count |-> 4]
      [] gridType = GRID_2X2 -> [count |-> 4]

----------------------------------------------------------------------------
\* Numbers with a fraction (face coordinates, ratios, percentages) are
\* rationals n/d in lowest terms with d > 0.

RECURSIVE GCD(_, _)
GCD(a, b) == IF b = 0 THEN a ELSE GCD(b, a % b)

Q(n, d) ==
    LET an == IF n < 0 THEN -n ELSE n
        ad == IF d < 0 THEN -d ELSE d
        g  == GCD(an, ad)
        sg == IF (n < 0) = (d < 0) THEN 1 ELSE -1
    IN  [n |-> sg * (an \div g), d |-> ad \div g]

QSub(a, b) == Q(a.n * b.d - b.n * a.d, a.d * b.d)
QMul(a, b) == Q(a.n * b.n, a.d * b.d)
QDiv(a, b) == Q(a.n * b.d, a.d * b.n)
QLess(a, b) == a.n * b.d < b.n * a.d
QAbs(a) == IF a.n < 0 THEN [n |-> -a.n, d |-> a.d] ELSE a
QInt(k) == [n |-> k, d |-> 1]

\* faceData null, the overlay not rendered, no mask drawn
NullFace == [face |-> FALSE, x |-> QInt(0), y |-> QInt(0),
             width |-> QInt(0), height |-> QInt(0),
             videoWidth |-> 0, videoHeight |-> 0]
NoStyle == [left |-> QInt(-1), top |-> QInt(-1), scale |-> QInt(-1),
            opacity |-> QInt(-1)]
NoMask == [centerX |-> QInt(-1), centerY |-> QInt(-1),
           baseScale |-> QInt(-1)]

\* Detection loops one run may start (one per enabling of the detection).
MaxLoops == 2

Loops == 1..MaxLoops

\* useFaceDetection after its first render with enabled = false: no model,
\* rafRef null (0), no detect() started.
DetectionAtRest ==
    [enabled |-> FALSE, model |-> FALSE, rafRef |-> 0, started |-> 0,
     loops |-> [k \in Loops |-> "none"]]

\* useState(4/3) of VideoFeed; no face, nothing rendered.
MaskAtRest ==
    /\ detection = DetectionAtRest
    /\ faceData = NullFace
    /\ containerRatio = Q(4, 3)
    /\ overlayStyle = NoStyle
    /\ maskDrawn = NoMask

----------------------------------------------------------------------------
\* captureFrame (crop to 4:3, floor, canvas of the crop's size)

NoCrop == [sW |-> -1, sH |-> -1, sX |-> -1, sY |-> -1]

\* videoRatio > targetRatio, with videoRatio = vw / vh and targetRatio = 4/3.
\* 0/0 is NaN and compares false; vw/0 is Infinity and compares true.
videoRatioWider(vw, vh) == 3 * vw > 4 * vh

\* captureFrameCrop with the comparison turned round (the crop of the wrong
\* branch is larger than the source).
captureFrameCropSwapped(vw, vh) ==
    IF ~videoRatioWider(vw, vh)
    THEN [sW |-> (4 * vh) \div 3,
          sH |-> vh,
          sX |-> (3 * vw - 4 * vh) \div 6,
          sY |-> 0]
    ELSE [sW |-> vw,
          sH |-> (3 * vw) \div 4,
          sX |-> 0,
          sY |-> (4 * vh - 3 * vw) \div 8]

\* The four values after Math.floor.  In the wide branch sX is computed from
\* the unfloored sW = vh * 4/3; in the other from the unfloored sH = vw * 3/4.
captureFrameCrop(vw, vh) ==
    IF videoRatioWider(vw, vh)
    THEN [sW |-> (4 * vh) \div 3,
          sH |-> vh,
          sX |-> (3 * vw - 4 * vh) \div 6,
          sY |-> 0]
    ELSE [sW |-> vw,
          sH |-> (3 * vw) \div 4,
          sX |-> 0,
          sY |-> (4 * vh - 3 * vw) \div 8]

\* captureFrame returning the whole source, uncropped.
captureFrameUncropped(vw, vh) == [w |-> vw, h |-> vh]

\* The raster returned: canvas.width = sW, canvas.height = sH.  There is no
\* readiness check: a source of zero size yields the empty raster ("data:,").
captureFrame(vw, vh) ==
    LET c == captureFrameCrop(vw, vh)
    IN  [w |-> c.sW, h |-> c.sH]

----------------------------------------------------------------------------
\* generateComposite

NoCanvas == [url |-> "none", width |-> 0, height |-> 0]
\* return "" (no 2d context, or no image)
EmptyResult == [url |-> "", width |-> 0, height |-> 0]
\* the promise never settles: an image that does not decode never fires onload
Unsettled == [url |-> "pending", width |-> 0, height |-> 0]

\* An image element loads iff its data URL holds a picture.
Loads(img) == img.w > 0 /\ img.h > 0

\* scaleFactor without the low-resolution regime (always 1.0).
scaleFactor2Fixed(sourceW) == 2

\* scaleFactor = sourceW < 500 ? 0.5 : 1.0, kept doubled.
scaleFactor2(sourceW) == IF sourceW < 500 THEN 1 ELSE 2

\* Math.round(base * scaleFactor)
RoundScaled(base, sourceW) == (base * scaleFactor2(sourceW) + 1) \div 2

padding(sourceW) == RoundScaled(70, sourceW)
gap(sourceW) == RoundScaled(70, sourceW)
bottomLabelHeight(sourceW) == RoundScaled(160, sourceW)

\* compositeCrop rounding up where the code rounds down.
compositeCropCeil(sourceW, sourceH) ==
    IF 3 * sourceW > 4 * sourceH
    THEN [sW |-> (4 * sourceH + 2) \div 3,
          sH |-> sourceH,
          sX |-> (3 * sourceW - 4 * sourceH + 5) \div 6,
          sY |-> 0]
    ELSE [sW |-> sourceW,
          sH |-> (3 * sourceW + 3) \div 4,
          sX |-> 0,
          sY |-> (4 * sourceH - 3 * sourceW + 7) \div 8]

\* The Grid 2x2 re-crop of the first image's size to 4:3.
compositeCrop(sourceW, sourceH) ==
    IF 3 * sourceW > 4 * sourceH
    THEN [sW |-> (4 * sourceH) \div 3,
          sH |-> sourceH,
          sX |-> (3 * sourceW - 4 * sourceH) \div 6,
          sY |-> 0]
    ELSE [sW |-> sourceW,
          sH |-> (3 * sourceW) \div 4,
          sX |-> 0,
          sY |-> (4 * sourceH - 3 * sourceW) \div 8]

\* canvasWidth with the gap between the two grid columns left out.
canvasWidthNoGap(gridType, n, sourceW, sourceH) ==
    LET p == padding(sourceW)
        cellW == compositeCrop(sourceW, sourceH).sW
    IN  CASE gridType = SINGLE   -> sourceW + (p * 2)
          [] gridType = STRIP_3  -> sourceW + (p * 2)
          [] gridType = STRIP_4  -> sourceW + (p * 2)
          [] gridType = GRID_2X2 -> (cellW * 2) + (p * 2)

canvasWidth(gridType, n, sourceW, sourceH) ==
    LET p == padding(sourceW)
        cellW == compositeCrop(sourceW, sourceH).sW
    IN  CASE gridType = SINGLE   -> sourceW + (p * 2)
          [] gridType = STRIP_3  -> sourceW + (p * 2)
          [] gridType = STRIP_4  -> sourceW + (p * 2)
          [] gridType = GRID_2X2 -> (cellW * 2) + gap(sourceW) + (p * 2)

\* canvasHeight with the footer band left out.
canvasHeightNoFooter(gridType, n, sourceW, sourceH) ==
    LET p == padding(sourceW)
        g == gap(sourceW)
        cellH == compositeCrop(sourceW, sourceH).sH
    IN  CASE gridType = SINGLE   -> sourceH + (p * 2)
          [] gridType = STRIP_3  -> (sourceH * n) + (g * (n - 1)) + (p * 2)
          [] gridType = STRIP_4  -> (sourceH * n) + (g * (n - 1)) + (p * 2)
          [] gridType = GRID_2X2 -> (cellH * 2) + g + (p * 2)

canvasHeight(gridType, n, sourceW, sourceH) ==
    LET p == padding(sourceW)
        g == gap(sourceW)
        f == bottomLabelHeight(sourceW)
        cellH == compositeCrop(sourceW, sourceH).sH
    IN  CASE gridType = SINGLE   -> sourceH + (p * 2) + f
          [] gridType = STRIP_3  -> (sourceH * n) + (g * (n - 1)) + (p * 2) + f
          [] gridType = STRIP_4  -> (sourceH * n) + (g * (n - 1)) + (p * 2) + f
          [] gridType = GRID_2X2 -> (cellH * 2) + g + (p * 2) + f

\* cellRect with the cells set side by side, no gap between them.
cellRectNoGap(gridType, index, sourceW, sourceH) ==
    LET p == padding(sourceW)
        c == compositeCrop(sourceW, sourceH)
    IN  IF gridType = GRID_2X2
        THEN [x |-> p + ((index % 2) * c.sW),
              y |-> p + ((index \div 2) * c.sH),
              w |-> c.sW, h |-> c.sH]
        ELSE [x |-> p, y |-> p + (index * sourceH),
              w |-> sourceW, h |-> sourceH]

\* The destination rectangle of the drawImage call for image index (from 0).
cellRect(gridType, index, sourceW, sourceH) ==
    LET p == padding(sourceW)
        g == gap(sourceW)
        c == compositeCrop(sourceW, sourceH)
    IN  IF gridType = GRID_2X2
        THEN [x |-> p + ((index % 2) * (c.sW + g)),
              y |-> p + ((index \div 2) * (c.sH + g)),
              w |-> c.sW, h |-> c.sH]
        ELSE [x |-> p, y |-> p + (index * (sourceH + g)),
              w |-> sourceW, h |-> sourceH]

\* ctxOk: whether canvas.getContext("2d") gave a context.
generateComposite(imgs, gridType, ctxOk) ==
    IF ~ctxOk THEN EmptyResult
    ELSE IF \E i \in 1..Len(imgs) : ~Loads(imgs[i]) THEN Unsettled
    ELSE IF Len(imgs) = 0 THEN EmptyResult
    ELSE [url    |-> "png",
          width  |-> canvasWidth(gridType, Len(imgs), imgs[1].w, imgs[1].h),
          height |-> canvasHeight(gridType, Len(imgs), imgs[1].w, imgs[1].h)]

----------------------------------------------------------------------------
\* The App component.

IDLE == "IDLE"
SETUP == "SETUP"
COUNTDOWN == "COUNTDOWN"
CAPTURE == "CAPTURE"
PROCESSING == "PROCESSING"
RESULT == "RESULT"

\* constants.ts: TIMERS
TIMERS == {3, 5, 10}
Timers == {t \in TIMERS : t <= MaxTimer}

\* constants.ts: DEFAULT_CONFIG (the fields the pipeline reads)
DEFAULT_CONFIG == [timerDuration |-> 3, gridType |-> GRID_2X2]

\* The settings of the SETUP screen that the pipeline reads.
Configs == [timerDuration : Timers, gridType : GridType]

\* useWebcam asks the camera for 1920 x 1080.
CameraWidth == 1920
CameraHeight == 1080

captureInterval == 100
freezeFrames == 5

CeilDiv(a, b) == (a + b - 1) \div b

\* const maxFrames = Math.ceil((config.timerDuration * 1000) / captureInterval)
maxFrames(timerDuration) == CeilDiv(timerDuration * 1000, captureInterval)

\* Sampling callbacks per countdown callback: 1000 ms / captureInterval.
TicksPerCount == 1000 \div captureInterval

Sessions == 1..MaxSessions

\* The processResult / generateVideo calls that may be in flight: one per
\* session, and (number 0) one of a session that ended before the run.
Calls == 0..MaxSessions

Copies(n, x) == [i \in 1..n |-> x]

Last(seq) == seq[Len(seq)]

\* The sampling callback asks captureFrame for targetWidth: 480.
targetWidth == 480

\* captureFrame with a targetWidth: the crop scaled to that width.
captureFrameScaled(vw, vh, width) ==
    LET r == captureFrame(vw, vh)
    IN  IF r.w = 0 THEN r
        ELSE [w |-> width, h |-> (width * r.h) \div r.w]

\* A captured data URL: the raster captureFrame makes of a vw x vh source
\* (at targetWidth for a sample, at full size for the shutter's still), and
\* the moment it shows (which shot, which sampling callback).
Frame(vw, vh, kind, shot, seq) ==
    LET r == IF kind = "sample" THEN captureFrameScaled(vw, vh, targetWidth)
             ELSE captureFrame(vw, vh)
    IN  [w |-> r.w, h |-> r.h, kind |-> kind, shot |-> shot, seq |-> seq]

\* useState<string | null>(null)
NullUrl == [url |-> "null", width |-> 0, height |-> 0]
NullVideo == [url |-> "null", session |-> 0, frames |-> 0, type |-> "none"]
NoTimeout == [pending |-> FALSE, newPhotos |-> <<>>]

PrIdle == [pc |-> "idle", gridType |-> GRID_2X2, timerDuration |-> 0,
           finalPhotos |-> <<>>]
\* Times of a generateVideo call are in units of 1/n ms, n the number of
\* video frames, counted from recorder.start().
GvIdle == [pc |-> "idle", gridType |-> GRID_2X2, timerDuration |-> 0,
           clips |-> <<>>, minFrames |-> 0, i |-> 0,
           compositeDataUrl |-> NoCanvas, videoFrames |-> <<>>,
           drawn |-> 0, now |-> 0, startTime |-> 0, drawnAt |-> 0,
           slept |-> FALSE, stoppedAt |-> 0,
           selectedMimeType |-> "none", surface |-> -1,
           recorder |-> "none", stops |-> 0,
           width |-> 0, height |-> 0,
           drawnSize |-> [width |-> 0, height |-> 0]]

\* The App before the landing screen's button is pressed (the image
\* pipeline's variables and the settings apart).
AppAtRest ==
    /\ appState = IDLE
    /\ photos = <<>>
    /\ compositeUrl = NullUrl
    /\ videoUrl = NullVideo
    /\ videoMimeType = "video/mp4"
    /\ recordedFrames = <<>>
    /\ currentClip = <<>>
    /\ recordingInterval = FALSE
    /\ timer = FALSE
    /\ countdown = 0
    /\ delay = FALSE
    /\ processTimeout = NoTimeout
    /\ videoMounted = FALSE
    /\ readyState = 0
    /\ elapsed = 0
    /\ jitter = 0
    /\ sessions = 0
    /\ retakes = 0
    /\ pr = [s \in Calls |-> PrIdle]
    /\ gv = [s \in Calls |-> GvIdle]

\* The settings are an input of the run.
AppInit ==
    /\ AppAtRest
    /\ config \in Configs
    /\ videoWidth = 0
    /\ videoHeight = 0
    /\ layout = GRID_2X2
    /\ crop = NoCrop
    /\ images = <<>>
    /\ canvas = NoCanvas
    /\ MaskAtRest

imgOnly == <<layout, crop, images, canvas, maskVars>>

\* A screen with a VideoFeed mounts a new video element: no data yet.
MountVideo ==
    /\ videoMounted' = TRUE
    /\ readyState' = 0
    /\ videoWidth' = 0
    /\ videoHeight' = 0

UnmountVideo ==
    /\ videoMounted' = FALSE
    /\ readyState' = 0
    /\ videoWidth' = 0
    /\ videoHeight' = 0

\* The stream reaches the element: first its metadata (the intrinsic size),
\* then frames; within MaxReadyDelay sampling periods of the start of a
\* countdown, or not before the next one.
VideoProgress ==
    /\ videoMounted
    /\ readyState < 2
    /\ elapsed <= MaxReadyDelay
    /\ readyState' = readyState + 1
    /\ videoWidth' = CameraWidth
    /\ videoHeight' = CameraHeight
    /\ UNCHANGED <<videoMounted, appState, config, sessions, retakes, captureVars,
                   resultVars, imgOnly>>

handleStart ==
    /\ appState = IDLE
    /\ appState' = SETUP
    /\ photos' = <<>>
    /\ compositeUrl' = NullUrl
    /\ videoUrl' = NullVideo
    /\ videoMimeType' = videoMimeType
    /\ recordedFrames' = <<>>
    /\ currentClip' = <<>>
    /\ MountVideo
    /\ UNCHANGED <<config, sessions, retakes, recordingInterval, timer, countdown,
                   delay, processTimeout, elapsed, jitter, pr, gv, imgOnly>>

\* The Back button of the SETUP screen.
backToIdle ==
    /\ appState = SETUP
    /\ appState' = IDLE
    /\ UnmountVideo
    /\ UNCHANGED <<config, sessions, retakes, captureVars, resultVars, imgOnly>>

\* PushCapped dropping the newest frame instead of the oldest.
PushCappedKeepOldest(clip, frame, cap) ==
    IF Len(clip) >= cap THEN clip ELSE Append(clip, frame)

\* PushCapped without the cap.
PushUncapped(clip, frame, cap) == Append(clip, frame)

\* currentClipRef.current.push(frame), then shift() when over maxFrames.
PushCapped(clip, frame, cap) ==
    LET pushed == Append(clip, frame)
    IN  IF Len(pushed) > cap THEN Tail(pushed) ELSE pushed

\* The body of startCountdown: the countdown state, an empty clip, the
\* sampling interval and the countdown interval (any earlier ones cleared).
startCountdown ==
    /\ countdown' = config.timerDuration
    /\ appState' = COUNTDOWN
    /\ currentClip' = <<>>
    /\ recordingInterval' = TRUE
    /\ timer' = TRUE
    /\ elapsed' = 0

startCaptureSequence ==
    /\ appState = SETUP
    /\ sessions < MaxSessions
    /\ sessions' = sessions + 1
    /\ retakes' = retakes
    /\ recordedFrames' = <<>>
    /\ startCountdown
    /\ MountVideo
    /\ UNCHANGED <<config, photos, delay, processTimeout, jitter, resultVars,
                   imgOnly>>

\* Countdown callbacks that have run since startCountdown.
CountsDone == config.timerDuration - countdown

\* Sampling callbacks that have run when the next countdown callback is due.
NextCountDue ==
    TicksPerCount * (IF timer THEN CountsDone + 1 ELSE config.timerDuration)

\* The callback of the sampling interval (every captureInterval ms).  It may
\* run ahead of a late countdown callback as far as the jitter left allows.
recordingTick ==
    /\ recordingInterval
    /\ elapsed < NextCountDue + (MaxJitter - jitter)
    /\ elapsed' = elapsed + 1
    /\ IF videoMounted /\ readyState >= 2 /\ videoWidth > 0
       THEN currentClip' =
                PushCapped(currentClip,
                           Frame(videoWidth, videoHeight, "sample",
                                 Len(photos) + 1, elapsed + 1),
                           maxFrames(config.timerDuration))
       ELSE currentClip' = currentClip
    /\ UNCHANGED <<appState, config, sessions, retakes, sourceVars, photos,
                   recordedFrames, recordingInterval, timer, countdown, delay,
                   processTimeout, jitter, resultVars, imgOnly>>

\* The clip as takePhoto seals it: freezeFrames copies of the still pushed.
SealClip(clip, photoData) == clip \o Copies(freezeFrames, photoData)

\* The try block of takePhoto run to its end; captureFrame is given whatever
\* the element has.
takePhotoCaptured ==
    LET photoData == Frame(videoWidth, videoHeight, "photo",
                           Len(photos) + 1, elapsed)
        newPhotos == Append(photos, photoData)
    IN  /\ recordingInterval' = FALSE
        /\ IF recordingInterval /\ Len(currentClip) > 0
           THEN /\ currentClip' = SealClip(currentClip, photoData)
                /\ recordedFrames' =
                       Append(recordedFrames, SealClip(currentClip, photoData))
           ELSE UNCHANGED <<currentClip, recordedFrames>>
        /\ photos' = newPhotos
        /\ IF Len(newPhotos) >= GRID_CONFIGS(config.gridType).count
           THEN /\ processTimeout' = [pending |-> TRUE, newPhotos |-> newPhotos]
                /\ delay' = delay
           ELSE /\ delay' = TRUE
                /\ processTimeout' = processTimeout

\* captureFrame threw: the catch block logs, and nothing of the try block
\* after it has run.  The same is left when videoRef.current is null.
takePhotoCaught ==
    UNCHANGED <<photos, recordedFrames, currentClip, recordingInterval, delay,
                processTimeout>>

\* takePhoto, as run from the countdown callback.
takePhoto ==
    IF videoMounted
    THEN takePhotoCaptured \/ takePhotoCaught
    ELSE takePhotoCaught

\* The callback of the countdown interval (every 1000 ms).
countdownTick ==
    LET off == IF elapsed >= NextCountDue THEN elapsed - NextCountDue
               ELSE NextCountDue - elapsed
    IN  /\ timer
        /\ jitter + off <= MaxJitter
        /\ jitter' = jitter + off
        /\ IF countdown <= 1
           THEN /\ timer' = FALSE
                /\ countdown' = 0
                /\ takePhoto
           ELSE /\ countdown' = countdown - 1
                /\ UNCHANGED <<timer, photos, recordedFrames, currentClip,
                               recordingInterval, delay, processTimeout>>
        /\ UNCHANGED <<appState, config, sessions, retakes, sourceVars, elapsed,
                       resultVars, imgOnly>>

\* The 1500 ms timeout between two shots: startCountdown().
delayTimeout ==
    /\ delay
    /\ delay' = FALSE
    /\ startCountdown
    /\ UNCHANGED <<config, sessions, retakes, sourceVars, photos, recordedFrames,
                   processTimeout, jitter, resultVars, imgOnly>>

RECURSIVE MinLength(_)
\* Math.min(...clips.map(c => c.length)), for one clip at least
MinLength(clips) ==
    IF Len(clips) = 1 THEN Len(clips[1])
    ELSE LET m == MinLength(Tail(clips))
         IN  IF Len(clips[1]) < m THEN Len(clips[1]) ELSE m

\* generateVideoCall without its two early returns.
generateVideoCallUnguarded(clips, cfg) ==
    [GvIdle EXCEPT !.pc = "compose",
                   !.gridType = cfg.gridType,
                   !.timerDuration = cfg.timerDuration,
                   !.clips = clips,
                   !.minFrames = IF Len(clips) = 0 THEN 0
                                 ELSE MinLength(clips)]

\* generateVideo up to its first await, clips being recordedFramesRef.current.
generateVideoCall(clips, cfg) ==
    IF Len(clips) = 0 \/ MinLength(clips) <= 0
    THEN [GvIdle EXCEPT !.pc = "returned", !.clips = clips]
    ELSE [GvIdle EXCEPT !.pc = "compose",
                        !.gridType = cfg.gridType,
                        !.timerDuration = cfg.timerDuration,
                        !.clips = clips,
                        !.minFrames = MinLength(clips)]

generateVideoStart(cfg) == generateVideoCall(recordedFrames, cfg)

\* The 500 ms timeout after the last shot: processResult(newPhotos) up to the
\* await of the QR code.  The PROCESSING screen has no video element.
processResultStart ==
    /\ processTimeout.pending
    /\ sessions \in Sessions
    /\ processTimeout' = NoTimeout
    /\ appState' = PROCESSING
    /\ UnmountVideo
    /\ pr' = [pr EXCEPT ![sessions] =
                  [pc |-> "qr", gridType |-> config.gridType,
                   timerDuration |-> config.timerDuration,
                   finalPhotos |-> processTimeout.newPhotos]]
    /\ UNCHANGED <<config, sessions, retakes, photos, recordedFrames, currentClip,
                   recordingInterval, timer, countdown, delay, elapsed, jitter,
                   compositeUrl, videoUrl, videoMimeType,
                   gv, imgOnly>>

\* QRCode.toDataURL settles: resolved, or rejected into the catch block,
\* which logs and leaves the state as it is.
processResultQr(s) ==
    /\ pr[s].pc = "qr"
    /\ \E ok \in BOOLEAN :
           pr' = [pr EXCEPT ![s].pc = IF ok THEN "composite" ELSE "caught"]
    /\ UNCHANGED <<appState, config, sessions, retakes, sourceVars, captureVars,
                   compositeUrl, videoUrl, videoMimeType,
                   gv, imgOnly>>

\* generateComposite(finalPhotos) settles: setCompositeUrl(result), the call
\* of generateVideo (not awaited), setAppState(RESULT).
processResultComposite(s) ==
    /\ pr[s].pc = "composite"
    /\ \E ctxOk \in BOOLEAN :
         LET result == generateComposite(pr[s].finalPhotos, pr[s].gridType, ctxOk)
         IN  IF result = Unsettled
             THEN /\ pr' = [pr EXCEPT ![s].pc = "pending"]
                  /\ UNCHANGED <<appState, sourceVars, compositeUrl, gv>>
             ELSE /\ pr' = [pr EXCEPT ![s].pc = "done"]
                  /\ compositeUrl' = result
                  /\ gv' = [gv EXCEPT ![s] = generateVideoStart(pr[s])]
                  /\ appState' = RESULT
                  /\ UnmountVideo
    /\ UNCHANGED <<config, sessions, retakes, captureVars, videoUrl, videoMimeType,
                   imgOnly>>

\* FrameImages counting each clip's entries from its end.
FrameImagesFromEnd(clips, i) ==
    [c \in 1..Len(clips) |-> clips[c][Len(clips[c]) - i]]

\* clips.map(clip => clip[i]), i counted from 0
FrameImages(clips, i) == [c \in 1..Len(clips) |-> clips[c][i + 1]]

\* EvenDimension leaving an odd dimension as it is.
EvenDimensionRaw(raw) == raw

\* rawWidth % 2 === 0 ? rawWidth : rawWidth + 1
EvenDimension(raw) == IF raw % 2 = 0 THEN raw ELSE raw + 1

\* The container types generateVideo asks for, in its order of preference.
mimeTypes == <<"video/mp4", "video/webm;codecs=h264",
               "video/webm;codecs=vp9", "video/webm">>

MimeTypeSet == {mimeTypes[k] : k \in 1..Len(mimeTypes)}

\* What MediaRecorder.isTypeSupported may accept: any of the types or none.
AllBrowsers == SUBSET MimeTypeSet

\* A browser that records WebM with VP9.
WebmBrowser == {{"video/webm;codecs=vp9", "video/webm"}}

\* The selection loop from entry k on.
RECURSIVE SelectFrom(_, _)
SelectFrom(supported, k) ==
    IF k > Len(mimeTypes) THEN "video/webm"
    ELSE IF mimeTypes[k] \in supported THEN mimeTypes[k]
    ELSE SelectFrom(supported, k + 1)

\* let selectedMimeType = 'video/webm'; for (const type of mimeTypes) ...
selectedMimeType(supported) == SelectFrom(supported, 1)

\* new MediaRecorder(stream, { mimeType }) throws NotSupportedError for a
\* type isTypeSupported rejects.
RecorderConstructs(supported, type) == type \in supported

\* One round of the pre-generation loop: generateComposite of the clips'
\* i-th frames, then the load of its result into an image element, which
\* pushes it onto videoFrames.  Neither "" nor an unsettled promise ever
\* fires onload.  After the last round: the recording canvas with
\* videoFrames[0] drawn on it, the choice of the container type for a
\* browser of Browsers, setVideoMimeType, the recorder and recorder.start().
generateVideoCompose(s, Browsers) ==
    /\ gv[s].pc = "compose"
    /\ \E ctxOk \in BOOLEAN :
         LET g == gv[s]
             compositeDataUrl ==
                 generateComposite(FrameImages(g.clips, g.i), g.gridType, ctxOk)
             videoFrames ==
                 Append(g.videoFrames,
                        [i |-> g.i, width |-> compositeDataUrl.width,
                         height |-> compositeDataUrl.height,
                         images |-> FrameImages(g.clips, g.i)])
         IN  IF compositeDataUrl.url # "png"
             THEN /\ gv' = [gv EXCEPT ![s].pc = "awaitLoad",
                                      ![s].compositeDataUrl = compositeDataUrl]
                  /\ UNCHANGED videoMimeType
             ELSE IF g.i + 1 < g.minFrames
             THEN /\ gv' = [gv EXCEPT ![s].compositeDataUrl = compositeDataUrl,
                                      ![s].videoFrames = videoFrames,
                                      ![s].i = g.i + 1]
                  /\ UNCHANGED videoMimeType
             ELSE \/ /\ gv' = [gv EXCEPT
                                 ![s].compositeDataUrl = compositeDataUrl,
                                 ![s].videoFrames = videoFrames,
                                 ![s].i = 0,
                                 ![s].pc = "returned"]
                     /\ UNCHANGED videoMimeType
                  \/ \E supported \in Browsers :
                       LET type == selectedMimeType(supported)
                       IN  /\ videoMimeType' = type
                           /\ gv' = [gv EXCEPT
                                 ![s].compositeDataUrl = compositeDataUrl,
                                 ![s].videoFrames = videoFrames,
                                 ![s].i = 0,
                                 ![s].now = 0,
                                 ![s].surface = 0,
                                 ![s].width =
                                    EvenDimension(videoFrames[1].width),
                                 ![s].height =
                                    EvenDimension(videoFrames[1].height),
                                 ![s].drawnSize =
                                    [width |->
                                       EvenDimension(videoFrames[1].width),
                                     height |->
                                       EvenDimension(videoFrames[1].height)],
                                 ![s].selectedMimeType = type,
                                 ![s].recorder =
                                    IF RecorderConstructs(supported, type)
                                    THEN "recording" ELSE "none",
                                 ![s].pc =
                                    IF RecorderConstructs(supported, type)
                                    THEN "starting" ELSE "rejected"]
    /\ UNCHANGED <<appState, config, sessions, retakes, sourceVars, captureVars,
                   compositeUrl, videoUrl, pr, imgOnly>>

\* frameInterval = targetDurationMs / videoFrames.length (ms), which in the
\* call's unit of 1/n ms is targetDurationMs.
frameInterval(g) == g.timerDuration * 1000

\* targetTime for frame i with the frame's start taken for its end.
targetTimeOfStart(g, i) == g.startTime + (i * frameInterval(g))

\* const targetTime = startTime + ((i + 1) * frameInterval)
targetTime(g, i) == g.startTime + ((i + 1) * frameInterval(g))

\* setTimeout(resolve, timeLeft): the delay is converted to a whole number of
\* milliseconds (WebIDL long), the fraction dropped.
TimeoutDelay(timeLeft, n) == (timeLeft \div n) * n

\* Ms(ms, n): ms milliseconds in units of 1/n ms.
Ms(ms, n) == ms * n

\* The 100 ms timeout after recorder.start() fires, late by one of L (ms):
\* startTime = performance.now().
generateVideoStarted(s, L) ==
    /\ gv[s].pc = "starting"
    /\ \E late \in L :
         LET n == Len(gv[s].videoFrames)
             t == gv[s].now + Ms(100 + late, n)
         IN  gv' = [gv EXCEPT ![s].pc = "play", ![s].now = t,
                              ![s].startTime = t]
    /\ UNCHANGED <<appState, config, sessions, retakes, sourceVars, captureVars,
                   compositeUrl, videoUrl, videoMimeType,
                   pr, imgOnly>>

\* One round of the frame loop: drawImage(videoFrames[i]) now, then the
\* timeout until targetTime if that is still ahead, late by one of L (ms).
\* After the last round the 300 ms timeout is pending.
generateVideoDraw(s, L) ==
    /\ gv[s].pc = "play"
    /\ \E late \in L :
         LET g == gv[s]
             n == Len(g.videoFrames)
             timeLeft == targetTime(g, g.i) - g.now
             woken == IF timeLeft > 0
                      THEN g.now + TimeoutDelay(timeLeft, n) + Ms(late, n)
                      ELSE g.now
         IN  /\ timeLeft <= 0 => late = 0
             /\ gv' = [gv EXCEPT ![s].drawn = g.i + 1,
                                 ![s].surface = g.i,
                                 ![s].drawnSize = [width |-> g.width,
                                                   height |-> g.height],
                                 ![s].drawnAt = g.now,
                                 ![s].slept = (timeLeft > 0),
                                 ![s].now = woken,
                                 ![s].i = g.i + 1,
                                 ![s].pc = IF g.i + 1 < n THEN "play"
                                           ELSE "flush"]
    /\ UNCHANGED <<appState, config, sessions, retakes, sourceVars, captureVars,
                   compositeUrl, videoUrl, videoMimeType,
                   pr, imgOnly>>

\* generateVideoStop for a recorder.stop() that does not wait for the
\* frame loop to end.
generateVideoStopAnytime(s, L) ==
    /\ gv[s].pc \in {"play", "flush"}
    /\ \E late \in L :
         LET n == Len(gv[s].videoFrames)
             t == gv[s].now + Ms(300 + late, n)
         IN  gv' = [gv EXCEPT ![s].pc = "stopped", ![s].now = t,
                              ![s].stoppedAt = t,
                              ![s].recorder = "inactive",
                              ![s].stops = gv[s].stops + 1]
    /\ UNCHANGED <<appState, config, sessions, retakes, sourceVars, captureVars,
                   compositeUrl, videoUrl, videoMimeType,
                   pr, imgOnly>>

\* The 300 ms timeout fires, late by one of L (ms): recorder.stop().
generateVideoStop(s, L) ==
    /\ gv[s].pc = "flush"
    /\ \E late \in L :
         LET n == Len(gv[s].videoFrames)
             t == gv[s].now + Ms(300 + late, n)
         IN  gv' = [gv EXCEPT ![s].pc = "stopped", ![s].now = t,
                              ![s].stoppedAt = t,
                              ![s].recorder = "inactive",
                              ![s].stops = gv[s].stops + 1]
    /\ UNCHANGED <<appState, config, sessions, retakes, sourceVars, captureVars,
                   compositeUrl, videoUrl, videoMimeType,
                   pr, imgOnly>>

\* recorder.onstop: setVideoUrl(URL.createObjectURL(blob))
recorderOnStop(s) ==
    /\ gv[s].pc = "stopped"
    /\ gv' = [gv EXCEPT ![s].pc = "done"]
    /\ videoUrl' = [url |-> "blob", session |-> s,
                    frames |-> Len(gv[s].videoFrames),
                    type |-> gv[s].selectedMimeType]
    /\ UNCHANGED <<appState, config, sessions, retakes, sourceVars, captureVars,
                   compositeUrl, videoMimeType, pr, imgOnly>>

\* The Retake button of the PROCESSING / RESULT screen.
handleRetake ==
    /\ appState \in {PROCESSING, RESULT}
    /\ retakes < MaxRetakes
    /\ retakes' = retakes + 1
    /\ photos' = <<>>
    /\ compositeUrl' = NullUrl
    /\ videoUrl' = NullVideo
    /\ videoMimeType' = videoMimeType
    /\ recordedFrames' = <<>>
    /\ appState' = SETUP
    /\ MountVideo
    /\ UNCHANGED <<config, sessions, currentClip, recordingInterval, timer,
                   countdown, delay, processTimeout, elapsed, jitter, pr, gv,
                   imgOnly>>

\* Timers of a page whose main thread is idle fire on time.
OnTime == {0}

AppNext ==
    \/ VideoProgress
    \/ handleStart
    \/ backToIdle
    \/ startCaptureSequence
    \/ recordingTick
    \/ countdownTick
    \/ delayTimeout
    \/ processResultStart
    \/ handleRetake
    \/ \E s \in Calls :
         \/ processResultQr(s)
         \/ processResultComposite(s)
         \/ generateVideoCompose(s, WebmBrowser)
         \/ generateVideoStarted(s, OnTime)
         \/ generateVideoDraw(s, OnTime)
         \/ generateVideoStop(s, OnTime)
         \/ recorderOnStop(s)

Spec == AppInit /\ [][AppNext]_vars

----------------------------------------------------------------------------
\* The image pipeline on its own: a frame source of some size, a layout,
\* stills captured from the source, one composite of them.

\* Sizes of real sources next to the exhaustive small ones.
SourceSizes ==
    ((1..MaxDim) \X (1..MaxDim))
        \cup {<<800, 600>>, <<400, 300>>, <<640, 480>>, <<1280, 720>>,
              <<1920, 1080>>, <<500, 375>>, <<499, 374>>, <<720, 1280>>}

ImgInit ==
    /\ \E s \in SourceSizes : videoWidth = s[1] /\ videoHeight = s[2]
    /\ layout \in GridType
    /\ crop = NoCrop
    /\ images = <<>>
    /\ canvas = NoCanvas
    /\ MaskAtRest
    /\ config = DEFAULT_CONFIG
    /\ AppAtRest

\* One shutter press: a still of the current frame.
ImgCapture ==
    /\ canvas = NoCanvas
    /\ Len(images) < GRID_CONFIGS(layout).count
    /\ crop' = captureFrameCrop(videoWidth, videoHeight)
    /\ images' = Append(images, captureFrame(videoWidth, videoHeight))
    /\ UNCHANGED <<videoWidth, videoHeight, layout, canvas, maskVars, appVars>>

\* generateComposite(images, layout, ...) with a 2d context.
ImgCompose ==
    /\ canvas = NoCanvas
    /\ canvas' = generateComposite(images, layout, TRUE)
    /\ UNCHANGED <<videoWidth, videoHeight, layout, crop, images, maskVars,
                   appVars>>

ImgNext == ImgCapture \/ ImgCompose

SpecImage == ImgInit /\ [][ImgNext]_vars

----------------------------------------------------------------------------
\* Properties of the image pipeline.

Abs(x) == IF x < 0 THEN -x ELSE x

AllOfSize(imgs, n, w, h) ==
    /\ Len(imgs) = n
    /\ \A i \in 1..n : imgs[i] = [w |-> w, h |-> h]

\* C1: for every source size > 0 the crop rectangle of captureFrame lies
\* inside the source, is centred to within one pixel, and has the ratio 4:3
\* to within the flooring (|3*cropW - 4*cropH| <= 3).
C1_CropInsideCentred43 ==
    crop # NoCrop =>
        /\ crop.sW <= videoWidth /\ crop.sH <= videoHeight
        /\ crop.sX >= 0 /\ crop.sY >= 0
        /\ crop.sX + crop.sW <= videoWidth
        /\ crop.sY + crop.sH <= videoHeight
        /\ Abs(2 * crop.sX - (videoWidth - crop.sW)) <= 2
        /\ Abs(2 * crop.sY - (videoHeight - crop.sH)) <= 2
        /\ Abs(3 * crop.sW - 4 * crop.sH) <= 3

\* A wide source whose crop is floored in both the width and the offset.
C1_Witness ==
    /\ crop # NoCrop
    /\ videoRatioWider(videoWidth, videoHeight)
    /\ 3 * crop.sW # 4 * crop.sH
    /\ 2 * crop.sX # videoWidth - crop.sW

\* C2 (as amended): four stills of 800x600 in the Grid 2x2 layout give a
\* canvas of 1810 x 1570 pixels (800*2 + 70 + 140 = 1810).
C2_Grid800x600Canvas ==
    (canvas # NoCanvas /\ layout = GRID_2X2 /\ AllOfSize(images, 4, 800, 600))
        => (canvas.url = "png" /\ canvas.width = 1810 /\ canvas.height = 1570)

C2_Witness ==
    canvas.url = "png" /\ layout = GRID_2X2 /\ AllOfSize(images, 4, 800, 600)

\* C2 as stated: the canvas is 1610 x 1570.
C2_AsStated ==
    (canvas # NoCanvas /\ layout = GRID_2X2 /\ AllOfSize(images, 4, 800, 600))
        => (canvas.width = 1610 /\ canvas.height = 1570)

----------------------------------------------------------------------------
\* The capture session (Spec)

IsSample(f) == f.kind = "sample"

\* C4: with timerDuration T s and sampling every captureInterval ms the
\* clip in progress holds at most ceil(T * 1000 / captureInterval) sampled
\* frames (30 for T = 3) after every sampling callback: one that captures a
\* frame appends it, and drops the oldest frame first when the clip is full;
\* sealing appends exactly freezeFrames copies of the shot's still to the
\* clip, so a full clip is sealed with 35 frames.
C4_ClipCapOldestFirst ==
    [][LET cap == maxFrames(config.timerDuration)
           sampled == Frame(videoWidth, videoHeight, "sample",
                            Len(photos) + 1, elapsed + 1)
           ready == videoMounted /\ readyState >= 2 /\ videoWidth > 0
       IN  /\ maxFrames(3) = 30
           /\ Len(SelectSeq(currentClip', IsSample)) <= cap
           /\ (elapsed' = elapsed + 1 /\ ready) =>
                 /\ Len(currentClip') <= cap
                 /\ currentClip' = IF Len(currentClip) < cap
                                   THEN Append(currentClip, sampled)
                                   ELSE Append(Tail(currentClip), sampled)
           /\ Len(recordedFrames') = Len(recordedFrames) + 1 =>
                 /\ photos' = Append(photos, Last(photos'))
                 /\ Last(recordedFrames') =
                       currentClip \o Copies(5, Last(photos'))
                 /\ currentClip' = Last(recordedFrames')
                 /\ \A j \in 1..Len(currentClip) : IsSample(currentClip[j])
                 /\ (Len(currentClip) = cap /\ cap = 30) =>
                       Len(Last(recordedFrames')) = 35
      ]_vars

\* A sealed clip of 35 frames whose oldest samples were dropped.
C4_Witness ==
    \E k \in 1..Len(recordedFrames) :
        /\ Len(recordedFrames[k]) = 35
        /\ recordedFrames[k][1].seq > 1

\* C5: every entry of recordedFrames has at most cap + freezeFrames frames
\* (cap sampled frames and the freeze frames).
C5_SealedClipLength ==
    \A k \in 1..Len(recordedFrames) :
        Len(recordedFrames[k]) <= maxFrames(config.timerDuration) + freezeFrames

\* A sealed clip longer than cap.
C5_Witness ==
    \E k \in 1..Len(recordedFrames) :
        Len(recordedFrames[k]) > maxFrames(config.timerDuration)

\* C5 as stated: every entry of recordedFrames has at most cap frames.
C5_AsStated ==
    \A k \in 1..Len(recordedFrames) :
        Len(recordedFrames[k]) <= maxFrames(config.timerDuration)

\* C6 as stated: every shutter press seals one clip, so that when the video
\* assembler starts there are as many clips as photos.
C6_AsStated ==
    /\ ~recordingInterval => Len(recordedFrames) = Len(photos)
    /\ \A s \in Sessions :
          gv[s].pc # "idle" => Len(gv[s].clips) = Len(pr[s].finalPhotos)

\* C9 as stated: a frame source of zero size adds nothing to photos or to
\* the current clip: every raster held is one of a source with a size.
C9_AsStated ==
    /\ \A j \in 1..Len(photos) : photos[j].w > 0 /\ photos[j].h > 0
    /\ \A j \in 1..Len(currentClip) :
          currentClip[j].w > 0 /\ currentClip[j].h > 0

----------------------------------------------------------------------------
\* generateVideo on a finished recording, with late timers (SpecVideo)

Lateness == {0, 1, MaxStall}

VideoConfigs == [timerDuration : TIMERS, gridType : GridType]

CamFrame(kind, shot, seq) == Frame(CameraWidth, CameraHeight, kind, shot, seq)

\* The clip of a shot with m samples, as takePhoto seals it.
SealedClip(shot, m) ==
    SealClip([j \in 1..m |-> CamFrame("sample", shot, j)],
             CamFrame("photo", shot, m))

\* processResult is about to get its composite: all the photos of the
\* layout are taken, and the first k shots have sealed a clip.
VideoInit ==
    /\ \E cfg \in VideoConfigs :
        \E k \in 0..GRID_CONFIGS(cfg.gridType).count :
        \E m \in [1..k -> 1..MaxSamples] :
           LET finalPhotos == [c \in 1..GRID_CONFIGS(cfg.gridType).count |->
                                  CamFrame("photo", c,
                                           IF c <= k THEN m[c] ELSE 0)]
           IN  /\ config = cfg
               /\ photos = finalPhotos
               /\ recordedFrames = [c \in 1..k |-> SealedClip(c, m[c])]
               /\ currentClip = IF k = GRID_CONFIGS(cfg.gridType).count
                                THEN SealedClip(k, m[k]) ELSE <<>>
               /\ pr = [s \in Calls |->
                          IF s = 1
                          THEN [pc |-> "composite", gridType |-> cfg.gridType,
                                timerDuration |-> cfg.timerDuration,
                                finalPhotos |-> finalPhotos]
                          ELSE PrIdle]
    /\ appState = PROCESSING
    /\ sessions = 1
    /\ retakes = 0
    /\ compositeUrl = NullUrl
    /\ videoUrl = NullVideo
    /\ videoMimeType = "video/mp4"
    /\ recordingInterval = FALSE
    /\ timer = FALSE
    /\ countdown = 0
    /\ delay = FALSE
    /\ processTimeout = NoTimeout
    /\ videoMounted = FALSE
    /\ readyState = 0
    /\ elapsed = 0
    /\ jitter = 0
    /\ gv = [s \in Calls |-> GvIdle]
    /\ videoWidth = 0
    /\ videoHeight = 0
    /\ layout = GRID_2X2
    /\ crop = NoCrop
    /\ images = <<>>
    /\ canvas = NoCanvas
    /\ MaskAtRest

VideoNext ==
    \E s \in Calls :
        \/ processResultComposite(s)
        \/ generateVideoCompose(s, WebmBrowser)
        \/ generateVideoStarted(s, Lateness)
        \/ generateVideoDraw(s, Lateness)
        \/ generateVideoStop(s, Lateness)
        \/ recorderOnStop(s)

SpecVideo == VideoInit /\ [][VideoNext]_vars

Playing(g) == g.pc \in {"play", "flush", "stopped", "done"}

\* The frame loop has just resumed after a frame (or left its last round).
Resumed(g) == g.pc \in {"play", "flush"}

\* C7 as stated: the encoder runs, from recorder.start() to recorder.stop(),
\* for exactly targetDurationMs.
C7_AsStated ==
    \A s \in Sessions :
        gv[s].pc \in {"stopped", "done"} =>
            gv[s].stoppedAt = Ms(gv[s].timerDuration * 1000,
                                 Len(gv[s].videoFrames))

\* C8: the deadlines startTime + (i+1) * frameInterval increase strictly and
\* the last one is startTime + targetDurationMs exactly; frame i+1 is drawn
\* less than 1 ms before the deadline of frame i (the timeout's delay is the
\* time left with its fraction of a millisecond dropped), never earlier; a
\* frame drawn at or after its own deadline is followed by no sleep.
C8_DeadlinesAndPacing ==
    \A s \in Sessions :
        LET g == gv[s]
            n == Len(g.videoFrames)
        IN  Playing(g) =>
              /\ \A i \in 0..(n - 2) : targetTime(g, i) < targetTime(g, i + 1)
              /\ targetTime(g, n - 1)
                    = g.startTime + Ms(g.timerDuration * 1000, n)
              /\ g.drawn >= 2 =>
                    g.drawnAt + Ms(1, n) > targetTime(g, g.drawn - 2)
              /\ (g.drawn >= 1 /\ g.drawnAt >= targetTime(g, g.drawn - 1)) =>
                    (~g.slept /\ (Resumed(g) => g.now = g.drawnAt))
              /\ (g.drawn >= 1 /\ g.drawnAt < targetTime(g, g.drawn - 1)) =>
                    (g.slept /\ g.now + Ms(1, n) > targetTime(g, g.drawn - 1))

\* A frame drawn within the last millisecond before its predecessor's
\* deadline.
C8_Witness ==
    \E s \in Sessions :
        /\ Playing(gv[s])
        /\ gv[s].drawn >= 2
        /\ gv[s].drawnAt < targetTime(gv[s], gv[s].drawn - 2)

\* C8 as stated: frame i+1 is never drawn before the deadline of frame i.
C8_AsStated ==
    \A s \in Sessions :
        (Playing(gv[s]) /\ gv[s].drawn >= 2) =>
            gv[s].drawnAt >= targetTime(gv[s], gv[s].drawn - 2)

\* C10 as stated: once generateComposite has given the empty result,
\* generateVideo has ended (with a failure), and there is no video.
C10_AsStated ==
    \A s \in Sessions :
        gv[s].compositeDataUrl = EmptyResult =>
            /\ gv[s].pc \in {"failed", "returned"}
            /\ videoUrl = NullVideo

----------------------------------------------------------------------------
\* Retake and capture again while an earlier session's calls are in flight
\* (SpecRetake)

\* The layouts of the session that is captured after the retake.
RetakeLayouts == GridType

\* The RESULT screen of an earlier session is shown: one shot (layout SINGLE,
\* whatever the settings are now) with a clip of one sample; its
\* processResult has ended and its generateVideo call (call 0) has begun.
RetakeInit ==
    /\ config \in {cfg \in Configs : cfg.gridType \in RetakeLayouts}
    /\ photos = <<CamFrame("photo", 1, 1)>>
    /\ recordedFrames = <<SealedClip(1, 1)>>
    /\ currentClip = SealedClip(1, 1)
    /\ pr = [s \in Calls |->
               IF s = 0
               THEN [pc |-> "done", gridType |-> SINGLE,
                     timerDuration |-> config.timerDuration,
                     finalPhotos |-> <<CamFrame("photo", 1, 1)>>]
               ELSE PrIdle]
    /\ gv = [s \in Calls |->
               IF s = 0
               THEN [GvIdle EXCEPT !.pc = "compose",
                                   !.gridType = SINGLE,
                                   !.timerDuration = config.timerDuration,
                                   !.clips = <<SealedClip(1, 1)>>,
                                   !.minFrames = Len(SealedClip(1, 1))]
               ELSE GvIdle]
    /\ compositeUrl =
          generateComposite(<<CamFrame("photo", 1, 1)>>, SINGLE, TRUE)
    /\ elapsed = TicksPerCount * config.timerDuration
    /\ appState = RESULT
    /\ sessions = 0
    /\ retakes = 0
    /\ videoUrl = NullVideo
    /\ videoMimeType = "video/mp4"
    /\ recordingInterval = FALSE
    /\ timer = FALSE
    /\ countdown = 0
    /\ delay = FALSE
    /\ processTimeout = NoTimeout
    /\ videoMounted = FALSE
    /\ readyState = 0
    /\ jitter = MaxJitter
    /\ videoWidth = 0
    /\ videoHeight = 0
    /\ layout = GRID_2X2
    /\ crop = NoCrop
    /\ images = <<>>
    /\ canvas = NoCanvas
    /\ MaskAtRest

\* The user stays on the SETUP / capture / result screens.
RetakeNext ==
    \/ VideoProgress
    \/ startCaptureSequence
    \/ recordingTick
    \/ countdownTick
    \/ delayTimeout
    \/ processResultStart
    \/ handleRetake
    \/ \E s \in Calls :
         \/ processResultQr(s)
         \/ processResultComposite(s)
         \/ generateVideoCompose(s, WebmBrowser)
         \/ generateVideoStarted(s, OnTime)
         \/ generateVideoDraw(s, OnTime)
         \/ generateVideoStop(s, OnTime)
         \/ recorderOnStop(s)

SpecRetake == RetakeInit /\ [][RetakeNext]_vars

\* The pre-generation loop or the recording of a generateVideo call is
\* under way.
Assembling(g) == g.pc \in {"compose", "starting", "play", "flush"}

\* C11 as stated: at no time are two generateVideo assemblies in progress.
C11_AsStated ==
    Cardinality({s \in Calls : Assembling(gv[s])}) <= 1

\* C12 as stated: right after handleRetake no sampling interval is running,
\* currentClip is empty and recordedFrames is empty.
C12_AsStated ==
    [][retakes' = retakes + 1 =>
          /\ ~recordingInterval'
          /\ currentClip' = <<>>
          /\ recordedFrames' = <<>>
      ]_vars

\* The shutter of the session has run and left nothing behind it: no photo
\* timeout and no processResult call.
ShutterFailed ==
    /\ sessions > 0
    /\ countdown = 0
    /\ ~timer
    /\ ~delay
    /\ ~processTimeout.pending
    /\ pr[sessions].pc = "idle"

\* C13 as stated: after a failure caught in takePhoto or in processResult
\* no sampling or countdown timer keeps running and the user is on (or gets
\* to) a screen with the retake button.
C13_AsStated ==
    /\ ShutterFailed =>
          (~recordingInterval /\ appState \in {PROCESSING, RESULT})
    /\ \A s \in Calls :
          pr[s].pc \in {"caught", "pending"} =>
             (~recordingInterval /\ ~timer /\ appState # COUNTDOWN)

SameSize(imgs) ==
    \A c \in 1..Len(imgs) : imgs[c].w = imgs[1].w /\ imgs[c].h = imgs[1].h

\* C14 as stated: every composite of the assembler is made of stills of one
\* size.
C14_AsStated ==
    \A s \in Calls :
        \A j \in 1..Len(gv[s].videoFrames) :
            SameSize(gv[s].videoFrames[j].images)

\* The call had nothing to assemble: no clips, or a clip without a frame.
EmptyInput(g) ==
    g.pc # "idle" /\
    (IF Len(g.clips) = 0 THEN TRUE ELSE MinLength(g.clips) <= 0)

\* C15: generateComposite of no images gives the empty result, with no
\* canvas size; generateVideo with no clips, or with a clip of length 0,
\* returns with no frame composed, no recording and no video URL.
C15_EmptyInputNoOp ==
    /\ \A g \in GridType :
          /\ generateComposite(<<>>, g, TRUE) = EmptyResult
          /\ generateVideoCall(<<<<>>, SealedClip(1, 1)>>,
                               [gridType |-> g, timerDuration |-> 3]).pc
                = "returned"
    /\ \A s \in Calls :
          EmptyInput(gv[s]) =>
             /\ gv[s].pc = "returned"
             /\ gv[s].videoFrames = <<>>
             /\ gv[s].compositeDataUrl = NoCanvas
             /\ gv[s].drawn = 0
             /\ (videoUrl = NullVideo \/ videoUrl.session # s)

\* generateVideo was called with no clips.
C15_Witness ==
    \E s \in Calls : gv[s].pc = "returned" /\ Len(gv[s].clips) = 0

\* One generateVideo call with its timers on time, in any browser.
MimeNext ==
    \E s \in Calls :
        \/ processResultComposite(s)
        \/ generateVideoCompose(s, AllBrowsers)
        \/ generateVideoStarted(s, OnTime)
        \/ generateVideoDraw(s, OnTime)
        \/ generateVideoStop(s, OnTime)
        \/ recorderOnStop(s)

SpecMime == VideoInit /\ [][MimeNext]_vars

\* C16: the container type is the first of mimeTypes the browser supports,
\* "video/webm" if it supports none; the call never fails over it; the
\* type chosen is the one in videoMimeType and the one of the video.
C16_AsStated ==
    /\ \A supported \in AllBrowsers :
          LET type == selectedMimeType(supported)
          IN  /\ type \in MimeTypeSet
              /\ supported = {} => type = "video/webm"
              /\ supported # {} =>
                    \E k \in 1..Len(mimeTypes) :
                       /\ type = mimeTypes[k]
                       /\ type \in supported
                       /\ \A j \in 1..(k - 1) : mimeTypes[j] \notin supported
    /\ \A s \in Calls :
          /\ gv[s].pc # "rejected"
          /\ gv[s].selectedMimeType # "none" =>
                videoMimeType = gv[s].selectedMimeType
    /\ videoUrl # NullVideo =>
          videoUrl.type = gv[videoUrl.session].selectedMimeType

----------------------------------------------------------------------------
\* The mask: the live overlay of VideoFeed and the mask baked into a still.

\* The CSS of the overlay: left and top in percent, the scale() of the
\* transform (1 where the transform has none), the opacity.
getOverlayStyleCentred(face, ratio) ==
    [left |-> QInt(50), top |-> QInt(50), scale |-> QInt(1),
     opacity |-> Q(4, 5)]

getOverlayStyle(face, ratio) ==
    IF face.face /\ face.videoWidth # 0 /\ face.videoHeight # 0
    THEN LET videoRatio == Q(face.videoWidth, face.videoHeight)
             scale == QDiv(face.width, Q(35, 100))
             wider == QLess(ratio, videoRatio)
             taller == QLess(videoRatio, ratio)
             visibleFraction ==
                 IF wider
                 THEN QDiv(QMul(QInt(face.videoHeight), ratio),
                           QInt(face.videoWidth))
                 ELSE QDiv(QDiv(QInt(face.videoWidth), ratio),
                           QInt(face.videoHeight))
             offset == QDiv(QSub(QInt(1), visibleFraction), QInt(2))
             normalizedX == IF wider
                            THEN QDiv(QSub(face.x, offset), visibleFraction)
                            ELSE face.x
             normalizedY == IF ~wider /\ taller
                            THEN QDiv(QSub(face.y, offset), visibleFraction)
                            ELSE face.y
             visibleH == IF ~wider /\ taller
                         THEN QDiv(face.height, visibleFraction)
                         ELSE face.height
             finalLeft == QMul(normalizedX, QInt(100))
             finalTop == QMul(QSub(normalizedY, QMul(visibleH, Q(6, 10))),
                              QInt(100))
         IN  [left |-> finalLeft, top |-> finalTop, scale |-> scale,
              opacity |-> QInt(1)]
    ELSE [left |-> QInt(50), top |-> QInt(30), scale |-> QInt(1),
          opacity |-> Q(4, 5)]

\* adjustedFaceData dividing by the crop's size without taking the crop's
\* origin off first.
adjustedFaceDataUnshifted(face, vw, vh) ==
    IF ~face.face THEN NullFace
    ELSE LET r == captureFrameCrop(vw, vh)
         IN  [face |-> TRUE,
              x |-> QDiv(QMul(face.x, QInt(vw)), QInt(r.sW)),
              y |-> QDiv(QMul(face.y, QInt(vh)), QInt(r.sH)),
              width |-> QDiv(QMul(face.width, QInt(vw)), QInt(r.sW)),
              height |-> QDiv(QMul(face.height, QInt(vh)), QInt(r.sH)),
              videoWidth |-> r.sW, videoHeight |-> r.sH]

\* captureFrame: the face estimate relative to the crop rectangle.
adjustedFaceData(face, vw, vh) ==
    IF ~face.face THEN NullFace
    ELSE LET r == captureFrameCrop(vw, vh)
             fx_px == QMul(face.x, QInt(vw))
             fy_px == QMul(face.y, QInt(vh))
             fw_px == QMul(face.width, QInt(vw))
             fh_px == QMul(face.height, QInt(vh))
             fx_crop == QSub(fx_px, QInt(r.sX))
             fy_crop == QSub(fy_px, QInt(r.sY))
         IN  [face |-> TRUE,
              x |-> QDiv(fx_crop, QInt(r.sW)),
              y |-> QDiv(fy_crop, QInt(r.sH)),
              width |-> QDiv(fw_px, QInt(r.sW)),
              height |-> QDiv(fh_px, QInt(r.sH)),
              videoWidth |-> r.sW, videoHeight |-> r.sH]

\* drawMask: the centre of the crown arc and its scale.
drawMask(width, height, face) ==
    IF face.face
    THEN [centerX |-> QMul(face.x, QInt(width)),
          centerY |-> QMul(QSub(face.y, QMul(face.height, Q(6, 10))),
                           QInt(height)),
          baseScale |-> QDiv(face.width, Q(35, 100))]
    ELSE [centerX |-> Q(width, 2),
          centerY |-> QMul(QInt(height), Q(3, 10)),
          baseScale |-> QInt(1)]

\* captureFrame with a mask: drawMask on the canvas of the crop's size.
captureFrameMask(vw, vh, face) ==
    LET r == captureFrameCrop(vw, vh)
    IN  drawMask(r.sW, r.sH, adjustedFaceData(face, vw, vh))

\* Face coordinates are multiples of 1/FaceSteps.
FaceSteps == 4

\* Camera frames: 16:9, 4:3, 3:4, 1:1, and a 16:9 whose crop is floored.
MaskSources == {<<320, 180>>, <<160, 120>>, <<120, 160>>, <<100, 100>>,
                <<321, 181>>}

ContainerRatios == {Q(4, 3), Q(1, 1), Q(16, 9), Q(3, 4)}

\* What useFaceDetection may report of a frame vw x vh: nothing, or a box
\* with its centre and its size inside the frame.
FaceEstimates(vw, vh) ==
    {NullFace} \cup
    {[face |-> TRUE, x |-> Q(x, FaceSteps), y |-> Q(y, FaceSteps),
      width |-> Q(w, FaceSteps), height |-> Q(h, FaceSteps),
      videoWidth |-> vw, videoHeight |-> vh] :
        x \in 1..(FaceSteps - 1), y \in 1..(FaceSteps - 1),
        w \in 1..(FaceSteps \div 2), h \in 1..(FaceSteps \div 2)}

MaskInit ==
    /\ \E s \in MaskSources :
          /\ videoWidth = s[1]
          /\ videoHeight = s[2]
          /\ faceData \in FaceEstimates(s[1], s[2])
    /\ containerRatio \in ContainerRatios
    /\ overlayStyle = NoStyle
    /\ maskDrawn = NoMask
    /\ detection = DetectionAtRest
    /\ layout = GRID_2X2
    /\ crop = NoCrop
    /\ images = <<>>
    /\ canvas = NoCanvas
    /\ config = DEFAULT_CONFIG
    /\ AppAtRest

\* HeartsOverlay / StarsOverlay render.
OverlayRender ==
    /\ overlayStyle = NoStyle
    /\ overlayStyle' = getOverlayStyle(faceData, containerRatio)
    /\ UNCHANGED <<videoWidth, videoHeight, layout, crop, images, canvas,
                   faceData, containerRatio, maskDrawn, detection, appVars>>

\* captureFrame(video, filter, mask, faceData) with a mask.
MaskCapture ==
    /\ maskDrawn = NoMask
    /\ maskDrawn' = captureFrameMask(videoWidth, videoHeight, faceData)
    /\ crop' = captureFrameCrop(videoWidth, videoHeight)
    /\ UNCHANGED <<videoWidth, videoHeight, layout, images, canvas,
                   faceData, containerRatio, overlayStyle, detection,
                   appVars>>

MaskNext == OverlayRender \/ MaskCapture

SpecMask == MaskInit /\ [][MaskNext]_vars

\* C17: with no face estimate the overlay is at (50%, 30%) with scale 1
\* whatever the container's ratio, and the baked mask is anchored at
\* (width / 2, 0.3 * height) with scale 1.
C17_DefaultAnchor ==
    ~faceData.face =>
       /\ overlayStyle # NoStyle =>
             /\ overlayStyle.left = QInt(50)
             /\ overlayStyle.top = QInt(30)
             /\ overlayStyle.scale = QInt(1)
       /\ maskDrawn # NoMask =>
             /\ QMul(maskDrawn.centerX, QInt(2)) = QInt(crop.sW)
             /\ QMul(maskDrawn.centerY, QInt(10)) = QInt(3 * crop.sH)
             /\ maskDrawn.baseScale = QInt(1)

\* No face, the overlay rendered in a container that is not 4:3, and a
\* mask baked.
C17_Witness ==
    /\ ~faceData.face
    /\ containerRatio = Q(16, 9)
    /\ overlayStyle # NoStyle
    /\ maskDrawn # NoMask

\* a and b differ by no more than two pixels of px.
WithinFlooring(a, b, px) == ~QLess(Q(2, px), QAbs(QSub(a, b)))

Min(a, b) == IF a < b THEN a ELSE b

\* C18: for one face estimate and a 4:3 container the live overlay and the
\* baked mask have the same normalized anchor and the same scale (that is,
\* the same face width), whatever the source's ratio, to within the
\* flooring of the crop.
C18_AsStated ==
    (/\ faceData.face
     /\ containerRatio = Q(4, 3)
     /\ overlayStyle # NoStyle
     /\ maskDrawn # NoMask) =>
        LET px == Min(crop.sW, crop.sH)
        IN  /\ WithinFlooring(QDiv(overlayStyle.left, QInt(100)),
                              QDiv(maskDrawn.centerX, QInt(crop.sW)), px)
            /\ WithinFlooring(QDiv(overlayStyle.top, QInt(100)),
                              QDiv(maskDrawn.centerY, QInt(crop.sH)), px)
            /\ WithinFlooring(QMul(overlayStyle.scale, Q(35, 100)),
                              QMul(maskDrawn.baseScale, Q(35, 100)), px)

\* The pre-generation loop of the call is over.
Composed(g) ==
    g.pc \in {"starting", "play", "flush", "stopped", "done", "rejected"}

\* C19: generateVideo composes exactly minFrames frames, minFrames the
\* length of the shortest clip; frame i is made of entry i of every clip,
\* in the clips' order; the frames are appended in increasing i, the
\* composite of round i being the only one in the making while the frames
\* before it are all on videoFrames.
C19_FramesInOrder ==
    \A s \in Calls :
       LET g == gv[s]
       IN  /\ g.pc \in {"compose", "awaitLoad"} =>
                 /\ Len(g.videoFrames) = g.i
                 /\ g.i < g.minFrames
           /\ Composed(g) =>
                 /\ Len(g.videoFrames) = g.minFrames
                 /\ \A c \in 1..Len(g.clips) : g.minFrames <= Len(g.clips[c])
                 /\ \E c \in 1..Len(g.clips) : g.minFrames = Len(g.clips[c])
           /\ \A j \in 1..Len(g.videoFrames) :
                 /\ g.videoFrames[j].i = j - 1
                 /\ Len(g.videoFrames[j].images) = Len(g.clips)
                 /\ \A c \in 1..Len(g.clips) :
                       g.videoFrames[j].images[c] = g.clips[c][j]

\* A call has composed the frames of several clips of different lengths.
C19_Witness ==
    \E s \in Calls :
       /\ Composed(gv[s])
       /\ Len(gv[s].clips) >= 3
       /\ Len(gv[s].videoFrames) >= 2 + freezeFrames
       /\ \E c \in 1..Len(gv[s].clips) :
             Len(gv[s].clips[c]) > gv[s].minFrames

\* C20: videoFrames[0] is on the canvas before the recorder starts; the
\* frames are drawn in the order of their index; the recorder is stopped
\* once, after the last frame was drawn and 300 ms more have passed; the
\* video URL of a call is set by the recorder's onstop only, never before
\* the stop.
C20_DrawStartStopOrder ==
    \A s \in Calls :
       LET g == gv[s]
           n == Len(g.videoFrames)
       IN  /\ g.recorder # "none" => g.surface >= 0
           /\ g.pc = "starting" =>
                 g.recorder = "recording" /\ g.surface = 0 /\ g.drawn = 0
           /\ g.pc = "play" =>
                 /\ g.recorder = "recording"
                 /\ g.drawn = g.i
                 /\ g.drawn < n
                 /\ g.surface = IF g.drawn = 0 THEN 0 ELSE g.drawn - 1
           /\ g.pc = "flush" =>
                 g.recorder = "recording" /\ g.drawn = n /\ g.surface = n - 1
           /\ g.stops <= 1
           /\ g.stops = 1 <=> g.recorder = "inactive"
           /\ g.recorder = "inactive" =>
                 /\ g.pc \in {"stopped", "done"}
                 /\ g.drawn = n
                 /\ g.surface = n - 1
                 /\ g.stoppedAt >= g.drawnAt + Ms(300, n)
           /\ (videoUrl.url = "blob" /\ videoUrl.session = s) =>
                 g.pc = "done" /\ g.stops = 1

\* A recording of several frames has ended and its URL is set.
C20_Witness ==
    \E s \in Calls :
       /\ gv[s].pc = "done"
       /\ Len(gv[s].videoFrames) >= 2 + freezeFrames
       /\ videoUrl.url = "blob"
       /\ videoUrl.session = s

----------------------------------------------------------------------------
IsFloor(k, num, den) == den * k <= num /\ num < den * k + den

\* The cover crop of the claim for a source srcW x srcH.
IsCoverCrop(c, srcW, srcH) ==
    IF 3 * srcW > 4 * srcH
    THEN /\ c.sH = srcH
         /\ c.sY = 0
         /\ IsFloor(c.sW, 4 * srcH, 3)
         /\ IsFloor(c.sX, 3 * srcW - 4 * srcH, 6)
    ELSE /\ c.sW = srcW
         /\ c.sX = 0
         /\ IsFloor(c.sH, 3 * srcW, 4)
         /\ IsFloor(c.sY, 4 * srcH - 3 * srcW, 8)

\* C22: captureFrame and the Grid 2x2 branch of generateComposite crop by
\* one rule: a source wider than 4:3 keeps its height (cropY = 0,
\* cropW = floor(srcH*4/3), cropX = floor((srcW - srcH*4/3)/2)), any other
\* keeps its width (cropX = 0, cropH = floor(srcW*3/4),
\* cropY = floor((srcH - srcW*3/4)/2)); on one source size the two give the
\* same four integers.
C22_SameCoverCrop ==
    crop # NoCrop =>
       /\ IsCoverCrop(crop, videoWidth, videoHeight)
       /\ IsCoverCrop(compositeCrop(videoWidth, videoHeight),
                      videoWidth, videoHeight)
       /\ compositeCrop(videoWidth, videoHeight) = crop

\* A source not wider than 4:3 whose crop is floored in the height and in
\* the offset.
C22_Witness ==
    /\ crop # NoCrop
    /\ ~videoRatioWider(videoWidth, videoHeight)
    /\ 4 * crop.sH # 3 * videoWidth
    /\ 2 * crop.sY # videoHeight - crop.sH

\* generateComposite has laid out a grid of four stills.
GridComposed ==
    canvas.url = "png" /\ layout = GRID_2X2 /\ Len(images) = 4

C24_FaceRemap ==
    maskDrawn # NoMask =>
       LET a == adjustedFaceData(faceData, videoWidth, videoHeight)
           srcW == QInt(videoWidth)
           srcH == QInt(videoHeight)
           cropW == QInt(crop.sW)
           cropH == QInt(crop.sH)
       IN  IF faceData.face
           THEN /\ a.face
                /\ QMul(a.x, cropW) = QSub(QMul(faceData.x, srcW), QInt(crop.sX))
                /\ QMul(a.y, cropH) = QSub(QMul(faceData.y, srcH), QInt(crop.sY))
                /\ QMul(a.width, cropW) = QMul(faceData.width, srcW)
                /\ QMul(a.height, cropH) = QMul(faceData.height, srcH)
                /\ maskDrawn = drawMask(crop.sW, crop.sH, a)
                /\ maskDrawn.centerX =
                      QSub(QMul(faceData.x, srcW), QInt(crop.sX))
                /\ QMul(QMul(maskDrawn.baseScale, Q(35, 100)), cropW) =
                      QMul(faceData.width, srcW)
           ELSE /\ ~a.face
                /\ maskDrawn = drawMask(crop.sW, crop.sH, NullFace)

\* A mask baked for a face in a source that is cropped on its sides.
C24_Witness ==
    /\ maskDrawn # NoMask
    /\ faceData.face
    /\ crop.sX > 0
    /\ crop.sW < videoWidth

\* C25: the width and the height generateVideo records at are even: those
\* of the first composite frame, each plus one if odd; every frame is drawn
\* at that one size.
C25_EvenFixedSize ==
    \A s \in Calls :
       LET g == gv[s]
       IN  g.surface >= 0 =>
              LET rawWidth == g.videoFrames[1].width
                  rawHeight == g.videoFrames[1].height
              IN  /\ g.width % 2 = 0 /\ g.height % 2 = 0
                  /\ g.width = rawWidth + (rawWidth % 2)
                  /\ g.height = rawHeight + (rawHeight % 2)
                  /\ g.drawnSize = [width |-> g.width, height |-> g.height]

\* Several frames drawn of a recording whose first composite is odd both
\* ways.
C25_Witness ==
    \E s \in Calls :
       /\ gv[s].drawn >= 2
       /\ gv[s].videoFrames[1].width % 2 = 1
       /\ gv[s].videoFrames[1].height % 2 = 1

----------------------------------------------------------------------------
\* useFaceDetection: the detection loop.  A loop is one chain of detect()
\* calls; it is awaiting blazeface.load() ("awaitModel"), awaiting
\* estimateFaces ("awaitFaces"), waiting for its animation frame ("raf"),
\* or ended by cancelAnimationFrame ("cancelled").

\* step 3 of detect: rafRef.current = requestAnimationFrame(detect)
DetectLoop(d, k) == [d EXCEPT !.loops[k] = "raf", !.rafRef = k]

\* step 2 of detect up to its await: ready is videoRef.current.readyState >= 2
DetectFaces(d, k, ready) ==
    IF d.model /\ ready THEN [d EXCEPT !.loops[k] = "awaitFaces"]
    ELSE DetectLoop(d, k)

\* detect() from its start up to its first await: present is
\* window.blazeface.
Detect(d, k, present, ready) ==
    IF ~d.model /\ present THEN [d EXCEPT !.loops[k] = "awaitModel"]
    ELSE DetectFaces(d, k, ready)

\* cancelAnimationFrame(rafRef.current): a no-op for a frame that has run.
CancelFrame(d) ==
    IF d.rafRef # 0 /\ d.loops[d.rafRef] = "raf"
    THEN [d EXCEPT !.loops[d.rafRef] = "cancelled"]
    ELSE d

\* isDetectionActive turns true: the effect calls detect().
EnableDetection ==
    /\ ~detection.enabled
    /\ detection.started < MaxLoops
    /\ \E present \in BOOLEAN, ready \in BOOLEAN :
          detection' = Detect([detection EXCEPT !.enabled = TRUE,
                                                !.started = @ + 1],
                              detection.started + 1, present, ready)
    /\ UNCHANGED <<videoWidth, videoHeight, layout, crop, images, canvas,
                   faceData, containerRatio, overlayStyle, maskDrawn, appVars>>

\* isDetectionActive turns false: the cleanup of the last effect and the new
\* effect both cancel the frame of rafRef; setFaceData(null).
DisableDetection ==
    /\ detection.enabled
    /\ detection' = CancelFrame([detection EXCEPT !.enabled = FALSE])
    /\ faceData' = NullFace
    /\ UNCHANGED <<videoWidth, videoHeight, layout, crop, images, canvas,
                   containerRatio, overlayStyle, maskDrawn, appVars>>

\* blazeface.load() settles: the model, or an error that is swallowed.
ModelLoaded(k) ==
    /\ detection.loops[k] = "awaitModel"
    /\ \E ok \in BOOLEAN, ready \in BOOLEAN :
          detection' = DetectFaces([detection EXCEPT
                                      !.model = detection.model \/ ok],
                                   k, ready)
    /\ UNCHANGED <<videoWidth, videoHeight, layout, crop, images, canvas,
                   faceData, containerRatio, overlayStyle, maskDrawn, appVars>>

\* estimateFaces settles: a face, no face, or an error that is swallowed;
\* then the next frame is requested.
FacesEstimated(k) ==
    /\ detection.loops[k] = "awaitFaces"
    /\ \/ faceData' \in FaceEstimates(videoWidth, videoHeight)
       \/ UNCHANGED faceData
    /\ detection' = DetectLoop(detection, k)
    /\ UNCHANGED <<videoWidth, videoHeight, layout, crop, images, canvas,
                   containerRatio, overlayStyle, maskDrawn, appVars>>

\* The animation frame of a loop runs detect().
AnimationFrame(k) ==
    /\ detection.loops[k] = "raf"
    /\ \E present \in BOOLEAN, ready \in BOOLEAN :
          detection' = Detect(detection, k, present, ready)
    /\ UNCHANGED <<videoWidth, videoHeight, layout, crop, images, canvas,
                   faceData, containerRatio, overlayStyle, maskDrawn, appVars>>

FaceInit ==
    /\ \E s \in MaskSources : videoWidth = s[1] /\ videoHeight = s[2]
    /\ MaskAtRest
    /\ layout = GRID_2X2
    /\ crop = NoCrop
    /\ images = <<>>
    /\ canvas = NoCanvas
    /\ config = DEFAULT_CONFIG
    /\ AppAtRest

FaceNext ==
    \/ EnableDetection
    \/ DisableDetection
    \/ \E k \in Loops :
          \/ ModelLoaded(k)
          \/ FacesEstimated(k)
          \/ AnimationFrame(k)

SpecFace == FaceInit /\ [][FaceNext]_vars

\* The loop is alive: it will call detect() again or is within a call.
LoopActive(k) == detection.loops[k] \in {"awaitModel", "awaitFaces", "raf"}

\* C26: at most one detection loop is active at a time; while detection is
\* disabled the face estimate is null and no detection callback is
\* scheduled, also when a detection was under way at the moment of
\* disabling and when detection is enabled again later.
C26_AsStated ==
    /\ Cardinality({k \in Loops : LoopActive(k)}) <= 1
    /\ ~detection.enabled =>
          /\ faceData = NullFace
          /\ \A k \in Loops : detection.loops[k] # "raf"

----------------------------------------------------------------------------
\* Every capture sequence started so far has been retaken, and no new one
\* has been started since.
Retaken == retakes >= 1 /\ retakes >= sessions

\* C27: after handleRetake the results of the session retaken never come
\* back: until the user starts a new capture the App shows no result screen
\* and compositeUrl and videoUrl stay null, also when the processResult or
\* the generateVideo of that session completes after the retake.
C27_AsStated ==
    Retaken =>
       /\ appState \in {SETUP, IDLE}
       /\ compositeUrl = NullUrl
       /\ videoUrl = NullVideo

\* C28: the countdown interval and the sampling interval (one of each at
\* most: startCountdown clears the one it replaces) are live on the
\* COUNTDOWN screen only, and the sampling interval does not outlive its
\* countdown: the shutter press that ends the countdown cancels it.
C28_AsStated ==
    /\ (timer \/ recordingInterval) => appState = COUNTDOWN
    /\ recordingInterval => timer

\* No countdown of the session is running or due: neither the countdown
\* interval, nor the timeout before the next countdown, nor the timeout
\* before processResult.
CountdownsOver ==
    sessions > 0 /\ ~timer /\ ~delay /\ ~processTimeout.pending

\* C29: photos never holds more than the layout's count; a next countdown
\* is scheduled only while photos are missing; processResult is called with
\* exactly count photos, and once the countdowns of a session are over
\* (one shutter press each) it has been called.
C29_AsStated ==
    /\ Len(photos) <= GRID_CONFIGS(config.gridType).count
    /\ delay => Len(photos) < GRID_CONFIGS(config.gridType).count
    /\ processTimeout.pending =>
          Len(processTimeout.newPhotos) = GRID_CONFIGS(config.gridType).count
    /\ \A s \in Calls :
          pr[s].pc # "idle" =>
             Len(pr[s].finalPhotos) = GRID_CONFIGS(pr[s].gridType).count
    /\ CountdownsOver => pr[sessions].pc # "idle"

----------------------------------------------------------------------------
\* Rectangles a and b are at least d apart, side by side or one above the
\* other.
Apart(a, b, d) ==
    \/ a.x + a.w + d <= b.x
    \/ b.x + b.w + d <= a.x
    \/ a.y + a.h + d <= b.y
    \/ b.y + b.h + d <= a.y

\* C30: for every layout and every number of stills of one size that
\* generateComposite is given (the layout's count of photos, or one still
\* per sealed clip), the cells drawn are at least the gap apart, at least
\* the padding from the left, top and right edges of the canvas, and end at
\* or above the top of the footer band.
C30_CellsInsideApart ==
    canvas.url = "png" =>
       LET W == images[1].w
           H == images[1].h
           N == Len(images)
           footerTop == canvas.height - bottomLabelHeight(W)
       IN  \A i \in 0..(N - 1) :
              LET a == cellRect(layout, i, W, H)
              IN  /\ a.x >= padding(W)
                  /\ a.y >= padding(W)
                  /\ a.x + a.w + padding(W) <= canvas.width
                  /\ a.y + a.h <= footerTop
                  /\ \A j \in 0..(N - 1) :
                        j # i => Apart(a, cellRect(layout, j, W, H), gap(W))

\* A grid of three stills, as for a recording with one clip missing.
C30_Witness ==
    /\ canvas.url = "png"
    /\ layout = GRID_2X2
    /\ Len(images) = 3
    /\ images[1].w >= 500

====
